---------------------------- MODULE Spec2Model ----------------------------
(***************************************************************************)
(* Extraction/fallback engine of the Instagram downloader workers.         *)
(*                                                                         *)
(* The repository holds three variants of the same worker:                 *)
(*   "part_000"  src/unnamed/part_000  (video-only API, videos[])          *)
(*   "worker"    src/worker.js         (single video_url, method_used)     *)
(*   "part_001"  src/unnamed/part_001  (media[] of videos and images)      *)
(* Each exposes one operation (downloadInstagramVideo /                    *)
(* downloadInstagramMedia): clean and validate the URL, then run a fixed   *)
(* list of strategies one after the other, each awaiting network           *)
(* responses, and select the value to return.                              *)
(*                                                                         *)
(* Strings are sequences of one-character strings.                         *)
(***************************************************************************)
EXTENDS Integers, Sequences, FiniteSets, TLC

\* ------------------------------------------------------------------------
\* Bounds of the model

\* longest identifier (shortcode / story user name) of a generated URL
MaxIdLen == 2
\* most media entries a modelled payload yields
MaxMedia == 2
\* most occurrences (captured fields, bare URLs) of a generated payload
MaxOccs == 2
\* most parameters in the query string of a generated candidate URL
MaxParams == 3
\* most children of a generated carousel post
MaxChildren == 2
\* most entries of a generated video_versions list
MaxVersions == 3
\* largest width and height of a generated video version
MaxDim == 2

\* ------------------------------------------------------------------------
\* String primitives (JavaScript String methods on character sequences)

S_http == <<"h", "t", "t", "p">>
S_s == <<"s">>
S_colonSlashes == <<":", "/", "/">>
S_www == <<"w", "w", "w", ".">>
S_host == <<"i", "n", "s", "t", "a", "g", "r", "a", "m", ".", "c", "o", "m">>
S_p == <<"/", "p", "/">>
S_reel == <<"/", "r", "e", "e", "l", "/">>
S_tv == <<"/", "t", "v", "/">>
S_stories == <<"/", "s", "t", "o", "r", "i", "e", "s", "/">>
S_slash == <<"/">>
S_ftp == <<"f", "t", "p">>
S_otherHost == <<"e", "x", "a", "m", "p", "l", "e", ".", "c", "o", "m">>
S_explore == <<"/", "e", "x", "p", "l", "o", "r", "e", "/">>
S_query == <<"?", "u", "t", "m", "=", "x">>
S_embed == <<"e", "m", "b", "e", "d">>
S_digits12 == <<"1", "2">>
S_space == <<" ">>

Lower == {"a", "b", "c", "d", "e", "f", "g", "h", "i", "j", "k", "l", "m", "n", "o", "p", "q", "r", "s", "t", "u", "v", "w", "x", "y", "z"}
Upper == {"A", "B", "C", "D", "E", "F", "G", "H", "I", "J", "K", "L", "M", "N", "O", "P", "Q", "R", "S", "T", "U", "V", "W", "X", "Y", "Z"}
Digit == {"0", "1", "2", "3", "4", "5", "6", "7", "8", "9"}
\* [A-Za-z0-9_-]
IdClass == Lower \cup Upper \cup Digit \cup {"_", "-"}
\* [A-Za-z0-9_.-]
UserClass == IdClass \cup {"."}
WhiteSpace == {" "}

\* String.prototype.includes
Includes(s, sub) ==
    \E p \in 1..(Len(s) - Len(sub) + 1) : SubSeq(s, p, p + Len(sub) - 1) = sub

\* String.prototype.endsWith
EndsWith(s, sub) ==
    /\ Len(s) >= Len(sub)
    /\ SubSeq(s, Len(s) - Len(sub) + 1, Len(s)) = sub

\* String.prototype.trim
Trim(s) ==
    LET keep == {p \in 1..Len(s) : s[p] \notin WhiteSpace}
    IN  IF keep = {} THEN <<>>
        ELSE LET lo == CHOOSE p \in keep : \A q \in keep : p <= q
                 hi == CHOOSE p \in keep : \A q \in keep : q <= p
             IN  SubSeq(s, lo, hi)

\* s.split(c)[0]: the text before the first occurrence of character c
SplitFirst(s, c) ==
    LET at == {p \in 1..Len(s) : s[p] = c}
    IN  IF at = {} THEN s
        ELSE SubSeq(s, 1, (CHOOSE p \in at : \A q \in at : p <= q) - 1)

\* Regular-expression pieces.  A set P holds the positions at which the
\* match of the pattern read so far may end (the index of the next
\* character to read); the pattern is anchored at position 1 by starting
\* from {1}.
ReLit(s, P, lit) ==
    {p + Len(lit) : p \in {q \in P : /\ q + Len(lit) - 1 <= Len(s)
                                     /\ SubSeq(s, q, q + Len(lit) - 1) = lit}}

\* x?
ReOpt(s, P, lit) == P \cup ReLit(s, P, lit)

\* [class]+
RePlus(s, P, class) ==
    {q \in 2..(Len(s) + 1) :
        \E p \in P : p < q /\ \A r \in p..(q - 1) : s[r] \in class}

\* ^https?:\/\/(www\.)?instagram\.com
ReHostPrefix(s) ==
    ReLit(s, ReOpt(s, ReLit(s, ReOpt(s, ReLit(s, {1}, S_http), S_s),
                            S_colonSlashes), S_www), S_host)

\* ------------------------------------------------------------------------
\* URL normalizer and validator (identical text in the three variants)

\* cleanInstagramUrl without the endsWith test: the separator is appended
\* to every URL naming instagram.com
cleanInstagramUrl_AlwaysSlash(url) ==
    LET trimmed == Trim(url)
    IN  IF Includes(trimmed, S_host)
        THEN SplitFirst(trimmed, "?") \o S_slash
        ELSE trimmed

cleanInstagramUrl(url) ==
    LET trimmed == Trim(url)
    IN  IF Includes(trimmed, S_host)
        THEN LET base == SplitFirst(trimmed, "?")
             IN  IF EndsWith(base, S_slash) THEN base ELSE base \o S_slash
        ELSE trimmed

\* the end positions of the four patterns of isValidInstagramUrl on url
PatternEnds(url, kind) ==
    IF kind = "stories"
    THEN ReOpt(url,
               RePlus(url,
                      ReLit(url,
                            RePlus(url, ReLit(url, ReHostPrefix(url), S_stories),
                                   UserClass),
                            S_slash),
                      Digit),
               S_slash)
    ELSE ReOpt(url,
               RePlus(url,
                      ReLit(url, ReHostPrefix(url),
                            CASE kind = "p" -> S_p
                              [] kind = "reel" -> S_reel
                              [] OTHER -> S_tv),
                      IdClass),
               S_slash)

PatternKinds == {"p", "reel", "tv", "stories"}

\* patterns.some(pattern => pattern.test(url)): the patterns carry no end
\* anchor, so a pattern matches as soon as a prefix of url matches it
isValidInstagramUrl(url) ==
    \E kind \in PatternKinds : PatternEnds(url, kind) # {}

detectMediaType(url) ==
    IF Includes(url, S_reel) THEN "reel"
    ELSE IF Includes(url, S_tv) THEN "igtv"
    ELSE IF Includes(url, S_stories) THEN "story"
    ELSE "post"

\* extractShortcode: the identifier after the leftmost /p/, /reel/ or /tv/
\* (<<>> stands for null).  part_000 and worker.js read [A-Za-z0-9_-]+,
\* part_001 reads [^\/\?]+.
ShortcodeChar(v, c) ==
    IF v = "part_001" THEN c \notin {"/", "?"} ELSE c \in IdClass

extractShortcode(v, url) ==
    LET after(p) == UNION {ReLit(url, {p}, lit) : lit \in {S_p, S_reel, S_tv}}
        starts == {p \in 1..Len(url) :
                     \E e \in after(p) : e <= Len(url) /\ ShortcodeChar(v, url[e])}
    IN  IF starts = {} THEN <<>>
        ELSE LET first == CHOOSE p \in starts : \A q \in starts : p <= q
                 from == CHOOSE e \in after(first) : TRUE
                 stops == {e \in from..Len(url) : ~ShortcodeChar(v, url[e])}
                 to == IF stops = {} THEN Len(url)
                       ELSE (CHOOSE e \in stops : \A f \in stops : e <= f) - 1
             IN  SubSeq(url, from, to)

\* ------------------------------------------------------------------------
\* Generated inputs: a URL is assembled from parts, so that what the input
\* was built from is known independently of the validator.

IdAlphabet == {"A", "_", ".", "!"}
\* every identifier over the alphabet, and the name tv (a user or shortcode
\* spelled like a path segment)
Idents == UNION {[1..n -> IdAlphabet] : n \in 1..MaxIdLen} \cup {<<"t", "v">>}

Schemes == {"http", "https", "ftp"}
Hosts == {"instagram", "example"}
PathKinds == {"p", "reel", "tv", "stories", "explore"}
\* what follows the identifier: nothing, "/", "/12", "/12/" or "/embed"
Rests == {"none", "slash", "num", "numslash", "extra"}

UrlParts ==
    [ws : BOOLEAN, scheme : Schemes, www : BOOLEAN, host : Hosts,
     kind : PathKinds, id : Idents, rest : Rests, query : BOOLEAN]

BuildUrl(parts) ==
    LET pad == IF parts.ws THEN S_space ELSE <<>>
        scheme == CASE parts.scheme = "http" -> S_http
                    [] parts.scheme = "https" -> S_http \o S_s
                    [] OTHER -> S_ftp
        host == IF parts.host = "instagram" THEN S_host ELSE S_otherHost
        path == CASE parts.kind = "p" -> S_p
                  [] parts.kind = "reel" -> S_reel
                  [] parts.kind = "tv" -> S_tv
                  [] parts.kind = "stories" -> S_stories
                  [] OTHER -> S_explore
        rest == CASE parts.rest = "none" -> <<>>
                  [] parts.rest = "slash" -> S_slash
                  [] parts.rest = "num" -> S_slash \o S_digits12
                  [] parts.rest = "numslash" -> S_slash \o S_digits12 \o S_slash
                  [] OTHER -> S_slash \o S_embed
    IN  pad \o scheme \o S_colonSlashes
            \o (IF parts.www THEN S_www ELSE <<>>)
            \o host \o path \o parts.id \o rest
            \o (IF parts.query THEN S_query ELSE <<>>) \o pad

\* ------------------------------------------------------------------------
\* Media URLs: more String methods, the URL cleaner, the validity tests and
\* the quality classifier of the pattern extractors

S_https == <<"h", "t", "t", "p", "s", ":", "/", "/">>
S_mp4 == <<".", "m", "p", "4">>
S_jpg == <<".", "j", "p", "g">>
S_jpeg == <<".", "j", "p", "e", "g">>
S_png == <<".", "p", "n", "g">>
S_video == <<"v", "i", "d", "e", "o">>
S_manifest == <<"m", "a", "n", "i", "f", "e", "s", "t">>
S_photo == <<"p", "h", "o", "t", "o">>
S_thumbnail == <<"t", "h", "u", "m", "b", "n", "a", "i", "l">>
S_scontent == <<"s", "c", "o", "n", "t", "e", "n", "t">>
S_httpsScontent == S_https \o S_scontent
S_nJpg == <<"_", "n", ".", "j", "p", "g">>
S_hdMp4 == <<"_", "h", "d", ".", "m", "p", "4">>
S_hd == <<"_", "h", "d">>
S_720p == <<"7", "2", "0", "p">>
S_1080p == <<"1", "0", "8", "0", "p">>
S_high == <<"h", "i", "g", "h">>
S_u1080p == <<"_", "1", "0", "8", "0", "p">>
S_u720p == <<"_", "7", "2", "0", "p">>
S_u480p == <<"_", "4", "8", "0", "p">>
S_1080x1080 == <<"1", "0", "8", "0", "x", "1", "0", "8", "0">>
S_720x720 == <<"7", "2", "0", "x", "7", "2", "0">>
S_s1080x1080 == <<"_", "s", "1", "0", "8", "0", "x", "1", "0", "8", "0">>
S_s1080x1080Jpg == S_s1080x1080 \o S_jpg
S_s750x750Jpg == <<"_", "s", "7", "5", "0", "x", "7", "5", "0">> \o S_jpg
S_s640x640Jpg == <<"_", "s", "6", "4", "0", "x", "6", "4", "0">> \o S_jpg
S_s150x150 == <<"/", "s", "1", "5", "0", "x", "1", "5", "0", "/">>
S_escAmp == <<"\\", "u", "0", "0", "2", "6">>
S_escSlash == <<"\\", "/">>
S_escQuote == <<"\\", "\"">>
S_quot == <<"&", "q", "u", "o", "t", ";">>
S_ampEntity == <<"&", "a", "m", "p", ";">>
S_amp == <<"&">>
S_quote == <<"\"">>
S_question == <<"?">>
S_equals == <<"=">>

\* String.prototype.startsWith
StartsWith(s, sub) ==
    /\ Len(s) >= Len(sub)
    /\ SubSeq(s, 1, Len(sub)) = sub

\* String.prototype.indexOf, counted from 1; 0 when sub does not occur
IndexOf(s, sub) ==
    LET at == {p \in 1..(Len(s) - Len(sub) + 1) : SubSeq(s, p, p + Len(sub) - 1) = sub}
    IN  IF at = {} THEN 0 ELSE CHOOSE p \in at : \A q \in at : p <= q

\* s.replace(pat, rep) with a string pattern: the first occurrence only
ReplaceFirst(s, pat, rep) ==
    LET i == IndexOf(s, pat)
    IN  IF i = 0 THEN s
        ELSE SubSeq(s, 1, i - 1) \o rep \o SubSeq(s, i + Len(pat), Len(s))

\* s.replace(/pat/g, rep) for a literal pattern: every occurrence, left to
\* right
RECURSIVE ReplaceAll(_, _, _)
ReplaceAll(s, pat, rep) ==
    LET i == IndexOf(s, pat)
    IN  IF i = 0 THEN s
        ELSE SubSeq(s, 1, i - 1) \o rep
                 \o ReplaceAll(SubSeq(s, i + Len(pat), Len(s)), pat, rep)

\* s.replace(/pat.*$/, rep): from the first occurrence to the end
ReplaceToEnd(s, pat, rep) ==
    LET i == IndexOf(s, pat)
    IN  IF i = 0 THEN s ELSE SubSeq(s, 1, i - 1) \o rep

\* s.split(sep) for a one-character separator
RECURSIVE Split(_, _)
Split(s, sep) ==
    LET i == IndexOf(s, sep)
    IN  IF i = 0 THEN <<s>>
        ELSE <<SubSeq(s, 1, i - 1)>> \o Split(SubSeq(s, i + 1, Len(s)), sep)

\* Array.prototype.join
RECURSIVE Join(_, _)
Join(segs, sep) ==
    IF segs = <<>> THEN <<>>
    ELSE IF Len(segs) = 1 THEN segs[1]
    ELSE segs[1] \o sep \o Join(Tail(segs), sep)

\* the replacements without the one for escaped slashes
Unescape_AmpOnly(url) ==
    ReplaceAll(ReplaceAll(url, S_escAmp, S_amp), S_escQuote, S_quote)

\* the three replacements every extractor applies to a captured URL:
\* \u0026 to &, \/ to / and \" to "
Unescape(url) ==
    ReplaceAll(ReplaceAll(ReplaceAll(url, S_escAmp, S_amp), S_escSlash, S_slash),
               S_escQuote, S_quote)

\* const essentialParams = [...]
EssentialParams ==
    <<<<"_", "n", "c", "_", "h", "t">>, <<"_", "n", "c", "_", "c", "a", "t">>,
      <<"_", "n", "c", "_", "o", "h", "c">>, <<"c", "c", "b">>, <<"o", "h">>,
      <<"o", "e">>>>

\* new URLSearchParams(queryString): the name=value pairs in order (values
\* of the modelled URLs need no percent-decoding or encoding)
SearchParams(queryString) ==
    LET pairs == SelectSeq(Split(queryString, "&"), LAMBDA seg : seg # <<>>)
    IN  [x \in 1..Len(pairs) |->
            LET eq == IndexOf(pairs[x], S_equals)
            IN  IF eq = 0 THEN [name |-> pairs[x], value |-> <<>>]
                ELSE [name |-> SubSeq(pairs[x], 1, eq - 1),
                      value |-> SubSeq(pairs[x], eq + 1, Len(pairs[x]))]]

\* the query string rebuilt from every parameter, whitelisted or not
KeepEssential_All(params) ==
    Join([x \in 1..Len(params) |-> params[x].name \o S_equals \o params[x].value],
         S_amp)

\* essentialParams.forEach(param => { if (params.has(param))
\*   newParams.set(param, params.get(param)) }); newParams.toString()
KeepEssential(params) ==
    LET has(name) == \E x \in 1..Len(params) : params[x].name = name
        get(name) == params[CHOOSE x \in 1..Len(params) :
                               /\ params[x].name = name
                               /\ \A y \in 1..(x - 1) : params[y].name # name].value
        kept == SelectSeq(EssentialParams, has)
    IN  Join([x \in 1..Len(kept) |-> kept[x] \o S_equals \o get(kept[x])], S_amp)

cleanMediaUrl(url) ==
    LET u == Unescape(url)
    IN  IF Includes(u, S_question)
        THEN LET parts == Split(u, "?")
                 query == KeepEssential(SearchParams(parts[2]))
             IN  IF query # <<>> THEN parts[1] \o S_question \o query ELSE parts[1]
        ELSE u

isValidVideoUrl(url) ==
    /\ url # <<>>
    /\ StartsWith(url, S_https)
    /\ Includes(url, S_mp4) \/ Includes(url, S_video)
    /\ Includes(url, S_scontent)
    /\ ~Includes(url, S_jpg)
    /\ ~Includes(url, S_jpeg)

isValidImageUrl(url) ==
    /\ url # <<>>
    /\ StartsWith(url, S_https)
    /\ Includes(url, S_jpg) \/ Includes(url, S_jpeg) \/ Includes(url, S_png)
    /\ Includes(url, S_scontent)

\* the classifier with 'standard' as its default
determineVideoQuality_DefaultStandard(url) ==
    IF Includes(url, S_u1080p) \/ Includes(url, S_1080x1080) THEN "hd"
    ELSE IF Includes(url, S_u720p) \/ Includes(url, S_720x720) THEN "hd"
    ELSE "standard"

determineVideoQuality(url) ==
    IF Includes(url, S_u1080p) \/ Includes(url, S_1080x1080) THEN "hd"
    ELSE IF Includes(url, S_u720p) \/ Includes(url, S_720x720) THEN "hd"
    ELSE IF Includes(url, S_u480p) THEN "standard"
    ELSE "hd"

\* const hdFormats = [...]
HdFormats == <<S_s1080x1080Jpg, S_s750x750Jpg, S_s640x640Jpg>>

\* the first format whose replacement changes the URL (always the first)
getHDImageUrl(url) ==
    IF Includes(url, S_nJpg)
    THEN LET changes == {f \in 1..Len(HdFormats) :
                            ReplaceFirst(url, S_nJpg, HdFormats[f]) # url}
         IN  IF changes = {} THEN url
             ELSE ReplaceFirst(url, S_nJpg,
                               HdFormats[CHOOSE f \in changes : \A g \in changes : f <= g])
    ELSE url

\* ------------------------------------------------------------------------
\* The pattern extractors.  A payload is read as the sequence of its
\* occurrences, in document order: each is a field (the JSON key or meta
\* property that introduces it, "text" for a bare URL in a script) and the
\* raw text found there (a URL, possibly escaped).

Occ(field, raw) == [field |-> field, raw |-> raw]

\* "key":"([^"]+)" or <meta property="key" content="([^"]+)": the text after
\* the key, up to the next quote; mp4 for ([^"]+\.mp4[^"]*)
CaptureRule(field, mp4) ==
    [kind |-> "capture", field |-> field, mp4 |-> mp4, lead |-> <<>>,
     mark |-> <<>>, gap |-> 0, stops |-> {"\""}]

\* lead[^stops]+mark[^stops]* (gap 1) or lead[^stops]*mark[^stops]* (gap 0),
\* matched anywhere in the text
LooseRule(lead, mark, gap, stops) ==
    [kind |-> "loose", field |-> "", mp4 |-> FALSE, lead |-> lead,
     mark |-> mark, gap |-> gap, stops |-> stops]

QuoteOrSpace == {"\"", "'", " "}

\* the text from position p up to the first character of stops
UpToStop(raw, p, stops) ==
    LET at == {q \in p..Len(raw) : raw[q] \in stops}
    IN  IF at = {} THEN SubSeq(raw, p, Len(raw))
        ELSE SubSeq(raw, p, (CHOOSE q \in at : \A r \in at : q <= r) - 1)

\* the leftmost match of a loose rule in raw, <<>> when there is none
LooseMatch(raw, rule) ==
    LET lead == rule.lead
        run(p) == UpToStop(raw, p, rule.stops)
        ok(p) == /\ SubSeq(raw, p, p + Len(lead) - 1) = lead
                 /\ IndexOf(SubSeq(run(p), Len(lead) + 1 + rule.gap, Len(run(p))),
                            rule.mark) > 0
        at == {p \in 1..(Len(raw) - Len(lead) + 1) : ok(p)}
    IN  IF at = {} THEN <<>>
        ELSE run(CHOOSE p \in at : \A q \in at : p <= q)

\* match[1] || match[0] of a rule on one occurrence, <<>> when it does not
\* match there
Capture(rule, occ) ==
    IF rule.kind = "loose" THEN LooseMatch(occ.raw, rule)
    ELSE LET text == UpToStop(occ.raw, 1, rule.stops)
         IN  IF /\ occ.field = rule.field
                /\ text # <<>>
                /\ rule.mp4 => IndexOf(Tail(text), S_mp4) > 0
             THEN text
             ELSE <<>>

\* while ((match = pattern.exec(html)) !== null): the matches of one
\* pattern, in document order
CapturesOf(rule, occs) ==
    SelectSeq([x \in 1..Len(occs) |-> Capture(rule, occs[x])],
              LAMBDA m : m # <<>>)

\* videoPatterns.forEach(pattern => ...): pattern after pattern
RECURSIVE AllCaptures(_, _)
AllCaptures(rules, occs) ==
    IF rules = <<>> THEN <<>>
    ELSE CapturesOf(Head(rules), occs) \o AllCaptures(Tail(rules), occs)

\* a media entry: original is the URL before getHDImageUrl when that
\* changed it, <<>> (undefined) otherwise
Entry(type, url, quality, original) ==
    [type |-> type, url |-> url, quality |-> quality, original |-> original]

HasUrl(entries, url) == \E x \in 1..Len(entries) : entries[x].url = url

\* a payload: the parts its occurrences were assembled from, and whether
\* it is JSON (an oEmbed answer) or a page
HtmlPayload(parts) == [json |-> FALSE, parts |-> parts]
OembedPayload(parts) == [json |-> TRUE, parts |-> parts]
NoPayload == HtmlPayload(<<>>)

\* what a parser returned: the media (videos) of its result, or its
\* video_url in worker.js
NotParsed == [by |-> "none", media |-> <<>>, video_url |-> <<>>]
Parsed(by, media, video_url) == [by |-> by, media |-> media, video_url |-> video_url]

\* ---- part_000: parseInstagramHTMLForVideo

VideoPatterns000 ==
    <<CaptureRule("video_url", FALSE), CaptureRule("playback_url", FALSE),
      CaptureRule("src", TRUE), CaptureRule("og:video", FALSE),
      CaptureRule("og:video:secure_url", FALSE),
      CaptureRule("video_versions", FALSE),
      CaptureRule("video_dash_manifest", FALSE)>>

\* the body of the while loop for one match
PushVideo000(videos, match) ==
    LET videoUrl == Unescape(match)
        quality == IF \/ Includes(videoUrl, S_hdMp4)
                      \/ Includes(videoUrl, S_720p)
                      \/ Includes(videoUrl, S_1080p)
                      \/ Includes(videoUrl, S_high)
                   THEN "hd" ELSE "standard"
    IN  IF \/ Includes(videoUrl, S_thumbnail)
           \/ Includes(videoUrl, S_nJpg)
           \/ Includes(videoUrl, S_jpg)
           \/ Includes(videoUrl, S_jpeg)
           \/ Includes(videoUrl, S_png)
        THEN videos
        ELSE IF ~Includes(videoUrl, S_mp4) /\ ~Includes(videoUrl, S_video)
        THEN videos
        ELSE IF videoUrl # <<>> /\ ~HasUrl(videos, videoUrl)
        THEN Append(videos, Entry("video", videoUrl, quality, <<>>))
        ELSE videos

RECURSIVE CollectVideos000(_, _)
CollectVideos000(videos, matches) ==
    IF matches = <<>> THEN videos
    ELSE CollectVideos000(PushVideo000(videos, Head(matches)), Tail(matches))

\* videos.sort(...): hd entries first; Array.prototype.sort is stable
SortHdFirst(videos) ==
    SelectSeq(videos, LAMBDA v : v.quality = "hd")
        \o SelectSeq(videos, LAMBDA v : v.quality # "hd")

parseInstagramHTMLForVideo(occs) ==
    SortHdFirst(CollectVideos000(<<>>, AllCaptures(VideoPatterns000, occs)))

\* ---- part_001: parseInstagramHTMLImproved

VideoPatterns001 ==
    <<CaptureRule("video_url", FALSE), CaptureRule("playback_url", FALSE),
      CaptureRule("og:video:secure_url", FALSE), CaptureRule("og:video", FALSE),
      CaptureRule("contentUrl", TRUE), CaptureRule("embedUrl", TRUE),
      LooseRule(S_https, S_mp4, 1, QuoteOrSpace),
      LooseRule(S_httpsScontent, S_mp4, 1, QuoteOrSpace)>>

ImagePatterns001 ==
    <<CaptureRule("display_url", FALSE), CaptureRule("og:image", FALSE),
      LooseRule(S_httpsScontent, S_nJpg, 1, QuoteOrSpace),
      LooseRule(S_httpsScontent, S_s1080x1080, 1, QuoteOrSpace)>>

\* foundVideoUrls holds exactly the URLs of the entries pushed so far
PushVideo001(media, match) ==
    LET videoUrl == cleanMediaUrl(match)
    IN  IF isValidVideoUrl(videoUrl) /\ ~HasUrl(media, videoUrl)
        THEN Append(media, Entry("video", videoUrl,
                                 determineVideoQuality(videoUrl), <<>>))
        ELSE media

RECURSIVE CollectVideos001(_, _)
CollectVideos001(media, matches) ==
    IF matches = <<>> THEN media
    ELSE CollectVideos001(PushVideo001(media, Head(matches)), Tail(matches))

\* acc is the media pushed so far and foundImageUrls, which holds the URLs
\* as cleaned, before getHDImageUrl
PushImage001(acc, match) ==
    LET imageUrl == cleanMediaUrl(match)
        hdImageUrl == getHDImageUrl(imageUrl)
    IN  IF isValidImageUrl(imageUrl) /\ imageUrl \notin acc.found
        THEN [media |-> Append(acc.media,
                               Entry("image", hdImageUrl,
                                     IF Includes(imageUrl, S_1080x1080)
                                     THEN "hd" ELSE "standard",
                                     IF imageUrl # hdImageUrl THEN imageUrl ELSE <<>>)),
              found |-> acc.found \cup {imageUrl}]
        ELSE acc

RECURSIVE CollectImages001(_, _)
CollectImages001(acc, matches) ==
    IF matches = <<>> THEN acc.media
    ELSE CollectImages001(PushImage001(acc, Head(matches)), Tail(matches))

\* the image loop run before the video loop
PushOrder_ImagesFirst(videos, images) == images \o videos

\* both loops push to the same array, the video loop first
PushOrder(videos, images) == videos \o images

\* if (media.some(m => m.type === 'video')) filteredMedia = media.filter(...)
DropThumbnails(media) ==
    LET someVideo == \E x \in 1..Len(media) : media[x].type = "video"
        filteredMedia ==
            SelectSeq(media, LAMBDA m :
                IF m.type = "image"
                THEN ~Includes(m.url, S_nJpg) \/ ~someVideo
                ELSE TRUE)
    IN  IF someVideo
        THEN IF Len(filteredMedia) > 0 THEN filteredMedia ELSE media
        ELSE media

\* media: <<>> stands for null as well
parseInstagramHTMLImproved(occs) ==
    LET videos == CollectVideos001(<<>>, AllCaptures(VideoPatterns001, occs))
        images == CollectImages001([media |-> <<>>, found |-> {}],
                                   AllCaptures(ImagePatterns001, occs))
    IN  DropThumbnails(PushOrder(videos, images))

\* ---- worker.js: parseInstagramHTML (the video_url of its result, <<>>
\* for null)

VideoPatternsWorker ==
    <<CaptureRule("video_url", FALSE), CaptureRule("playback_url", FALSE),
      CaptureRule("video_versions", FALSE), CaptureRule("video_versions", FALSE),
      CaptureRule("src", TRUE),
      [CaptureRule("video_url&quot;", FALSE) EXCEPT !.stops = {"&"}],
      CaptureRule("videoUrl", FALSE), CaptureRule("contentUrl", TRUE),
      LooseRule(S_https, S_mp4, 0, {"\""}),
      CaptureRule("dash_manifest", FALSE), CaptureRule("hls_manifest", FALSE)>>

\* const videoMatch = html.match(/<meta property="og:video" .../i)
OgVideoMatch(occs) ==
    LET found == CapturesOf(CaptureRule("og:video", FALSE), occs)
    IN  IF found = <<>> THEN <<>> ELSE found[1]

\* the assignment without its !result.video_url test: the last match wins
SetVideoUrl_Overwrite(video_url, videoUrl) == videoUrl

\* if (videoUrl.includes('.mp4') && !result.video_url) ... else if
\* (!result.video_url && ...): only an unset video_url is assigned
SetVideoUrl(video_url, videoUrl) ==
    IF video_url = <<>> THEN videoUrl ELSE video_url

\* the body of the while loop for one match
PickVideoWorker(video_url, match) ==
    LET videoUrl ==
            ReplaceAll(ReplaceAll(Unescape(match), S_quot, S_quote),
                       S_ampEntity, S_amp)
    IN  IF /\ ~Includes(videoUrl, S_mp4)
           /\ ~Includes(videoUrl, S_video)
           /\ ~Includes(videoUrl, S_manifest)
        THEN video_url
        ELSE IF \/ Includes(videoUrl, S_thumbnail)
                \/ Includes(videoUrl, S_nJpg)
                \/ Includes(videoUrl, S_photo)
        THEN video_url
        ELSE SetVideoUrl(video_url, videoUrl)

RECURSIVE CollectVideoWorker(_, _)
CollectVideoWorker(video_url, matches) ==
    IF matches = <<>> THEN video_url
    ELSE CollectVideoWorker(PickVideoWorker(video_url, Head(matches)),
                            Tail(matches))

\* the occurrences that lie inside <script> elements: all but the meta tags
InScript(occ) == occ.field \notin {"og:video", "og:video:secure_url", "og:image"}

\* if (!result.video_url): the first script holding an .mp4 URL (a URL
\* holding "video" first, within one script; one occurrence per script here)
ScriptFallback(occs) ==
    LET found == CapturesOf(LooseRule(S_https, S_mp4, 0, QuoteOrSpace),
                            SelectSeq(occs, InScript))
    IN  IF found = <<>> THEN <<>> ELSE found[1]

parseInstagramHTML(occs) ==
    LET fromPatterns == CollectVideoWorker(OgVideoMatch(occs),
                                           AllCaptures(VideoPatternsWorker, occs))
    IN  IF fromPatterns = <<>> THEN ScriptFallback(occs) ELSE fromPatterns

\* ---- the oEmbed parsers read oembedData.thumbnail_url (<<>> when absent)

ThumbnailUrl(occs) ==
    LET found == SelectSeq(occs, LAMBDA o : o.field = "thumbnail_url")
    IN  IF found = <<>> THEN <<>> ELSE found[Len(found)].raw

\* part_000: const possibleVideoUrls = [...]
PossibleVideoUrls(thumbnail_url) ==
    <<ReplaceFirst(thumbnail_url, S_nJpg, S_hdMp4),
      ReplaceFirst(thumbnail_url, S_nJpg, S_mp4),
      ReplaceFirst(thumbnail_url, S_jpg, S_mp4),
      ReplaceFirst(ReplaceFirst(thumbnail_url, S_s150x150, S_slash), S_jpg, S_mp4)>>

parseOembedDataForVideo(occs, originalUrl) ==
    LET thumbnail_url == ThumbnailUrl(occs)
        built == SelectSeq(PossibleVideoUrls(thumbnail_url),
                           LAMBDA videoUrl : Includes(videoUrl, S_mp4))
    IN  IF /\ thumbnail_url # <<>>
           /\ detectMediaType(originalUrl) \in {"reel", "igtv", "post"}
        THEN [x \in 1..Len(built) |->
                 Entry("video", built[x],
                       IF Includes(built[x], S_hd) THEN "hd" ELSE "standard", <<>>)]
        ELSE <<>>

\* part_001
parseOembedData(occs, originalUrl) ==
    LET thumbnail_url == ThumbnailUrl(occs)
        videoUrl == ReplaceToEnd(thumbnail_url, S_nJpg, S_mp4)
        hdImageUrl == getHDImageUrl(thumbnail_url)
        video == IF /\ detectMediaType(originalUrl) \in {"reel", "igtv"}
                    /\ videoUrl # thumbnail_url
                 THEN <<Entry("video", videoUrl, "hd", <<>>)>>
                 ELSE <<>>
        image == <<Entry("image", hdImageUrl, "hd",
                         IF hdImageUrl # thumbnail_url THEN thumbnail_url ELSE <<>>)>>
    IN  IF thumbnail_url # <<>> THEN video \o image ELSE <<>>

\* ------------------------------------------------------------------------
\* State

VARIABLES
    variant,      \* which of the three workers runs
    urlParts,     \* what the input was assembled from (instrumentation)
    rawUrl,       \* the argument of the extract operation
    cleanUrl,     \* const cleanUrl = cleanInstagramUrl(url)
    valid,        \* isValidInstagramUrl(cleanUrl), once computed
    pc,           \* "start", "call", "await", "examine", "delay", "done"
    idx,          \* position in methods of the strategy being tried
    inflight,     \* network requests issued and not yet answered
    silent,       \* the upstream of the outstanding request never answers
    cur,          \* what the strategy just tried returned or threw
    lastError,    \* let lastError
    bestResult,   \* let bestResult = null
    ret,          \* what the extract operation returned or raised
    calls,        \* requests issued so far by each strategy (instrumentation)
    invoked,      \* strategies invoked so far (instrumentation)
    outcomes,     \* how each strategy ended (instrumentation)
    examined,     \* strategies whose outcome the chain has read
    received,     \* the last response each strategy got (instrumentation)
    payload,      \* the payload handed to a parser
    parsed        \* what the parser made of it

vars == <<variant, urlParts, rawUrl, cleanUrl, valid, pc, idx, inflight,
          silent, cur, lastError, bestResult, ret, calls, invoked, outcomes,
          examined, received, payload, parsed>>

Variants == {"part_000", "worker", "part_001"}

\* const methods = [...]: four strategies in each variant
MethodName(v, n) ==
    CASE v = "part_000" -> <<"Direct", "GraphQL", "Proxy", "Oembed">>[n]
      [] v = "worker" -> <<"Direct", "Proxy", "Alternative", "Embed">>[n]
      [] OTHER -> <<"GraphQL", "Proxy", "Direct", "Oembed">>[n]

Methods == 1..4

\* a strategy's result object; by is the strategy that built it (object
\* identity), 0 for null.  part_000 calls the sequence videos, part_001
\* media (null when empty); worker.js carries a single video_url instead.
NullResult == [by |-> 0, media |-> <<>>, video_url |-> FALSE]
Result(n, media, video) == [by |-> n, media |-> media, video_url |-> video]

NoError == [by |-> 0, msg |-> "undefined"]

NoOutcome == [t |-> "none", result |-> NullResult, msg |-> ""]
Returned(n, media, video) ==
    [t |-> "return", result |-> Result(n, media, video), msg |-> ""]
Thrown(msg) == [t |-> "throw", result |-> NullResult, msg |-> msg]

NoRet ==
    [kind |-> "none", success |-> FALSE, error |-> "", data |-> NullResult,
     details |-> "", method_used |-> ""]

\* ------------------------------------------------------------------------
\* Media entries and what the parsers can hand to the chain.  An entry
\* keeps what the chain reads: type, quality, and whether the URL holds
\* ".jpg".

Video(q, jpg) == [type |-> "video", quality |-> q, jpg |-> jpg]
Image(q) == [type |-> "image", quality |-> q, jpg |-> TRUE]
Qualities == {"hd", "standard"}

SeqsUpTo(S, n) == UNION {[1..m -> S] : m \in 0..n}

\* parseInstagramHTMLForVideo: videos only, never a .jpg URL, hd first
HtmlMedia000 ==
    {m \in SeqsUpTo({Video(q, FALSE) : q \in Qualities}, MaxMedia) :
        \A a, b \in 1..Len(m) :
            (a < b /\ m[b].quality = "hd") => m[a].quality = "hd"}

\* parseGraphQLDataForVideo: every entry is pushed with quality 'hd'
GraphQLMedia000 == SeqsUpTo({Video("hd", FALSE)}, MaxMedia)

\* parseOembedDataForVideo: .mp4 URLs built from the thumbnail, 'hd' when
\* the URL holds "_hd"
OembedMedia000 == SeqsUpTo({Video(q, FALSE) : q \in Qualities}, MaxMedia)

\* parseInstagramHTMLImproved: the videos (isValidVideoUrl refuses .jpg),
\* then the images
HtmlMedia001 ==
    {m \in SeqsUpTo({Video(q, FALSE) : q \in Qualities}
                       \cup {Image(q) : q \in Qualities}, MaxMedia) :
        \A a, b \in 1..Len(m) :
            (a < b /\ m[b].type = "video") => m[a].type = "video"}

\* parseOembedData: for a reel or igtv URL a video built from the thumbnail
\* (quality 'hd'), then the thumbnail as an 'hd' image; nothing without a
\* thumbnail
OembedMedia001(url) ==
    {<<>>, <<Image("hd")>>}
      \cup (IF detectMediaType(url) \in {"reel", "igtv"}
            THEN {<<Video("hd", j), Image("hd")>> : j \in BOOLEAN}
            ELSE {})

\* ------------------------------------------------------------------------
\* The network.  A response is a rejection of the fetch promise, a non-OK
\* status, or an OK status with a body.  Bodies by class:
\*   "blocked"    text holding 'Please wait a few minutes before you try
\*                again' (short, not JSON)
\*   "notfound"   text holding 'Page Not Found'
\*   "text"       short text that is not JSON and holds no media
\*   "page"       HTML longer than 1000 characters naming instagram
\*   "json"       JSON of the shape the strategy reads (for a proxy: JSON
\*                whose contents is such a page)
\*   "jsonother"  JSON without the fields the strategy reads
\* A page or JSON body carries what the strategy's parser extracts from it.

Body(cls, media, video) == [cls |-> cls, media |-> media, video_url |-> video]
Rejected == [status |-> "reject", body |-> Body("none", <<>>, FALSE)]
NotOk == [status |-> "notok", body |-> Body("none", <<>>, FALSE)]
Ok(body) == [status |-> "ok", body |-> body]

\* what the parser applied by strategy name extracts from a body of class cls
Yield(v, name, url, cls) ==
    CASE v = "worker" -> {<<>>}
      [] v = "part_000" /\ cls = "json" /\ name = "GraphQL" -> GraphQLMedia000
      [] v = "part_000" /\ cls = "json" /\ name = "Oembed" -> OembedMedia000
      [] v = "part_000" /\ cls = "json" /\ name = "Proxy" -> HtmlMedia000
      [] v = "part_000" /\ cls = "page" /\ name = "Direct" -> HtmlMedia000
      [] v = "part_001" /\ cls = "json" /\ name = "Oembed" -> OembedMedia001(url)
      [] v = "part_001" /\ cls = "json" /\ name = "Proxy" -> HtmlMedia001
      [] v = "part_001" /\ cls = "page" /\ name \in {"GraphQL", "Direct"} -> HtmlMedia001
      [] OTHER -> {<<>>}

Responses(v, name, url) ==
    {Rejected, NotOk}
      \cup {Ok(Body(cls, <<>>, FALSE)) : cls \in {"blocked", "notfound", "text", "jsonother"}}
      \cup UNION {{Ok(Body(cls, m, b)) :
                      m \in Yield(v, name, url, cls),
                      b \in IF v = "worker" THEN BOOLEAN ELSE {FALSE}} :
                  cls \in {"page", "json"}}

\* what the strategy saw of a response: no answer, a non-OK status, or the
\* class of the body
ResponseClass(resp) == IF resp.status = "ok" THEN resp.body.cls ELSE resp.status

NetworkError == "network error"
JsonError == "invalid JSON"
IsJson(body) == body.cls \in {"json", "jsonother"}

\* what a strategy does once a response has arrived: return a result, throw,
\* or go on to its next request
StepReturn(media, video) ==
    [t |-> "return", media |-> media, video_url |-> video, msg |-> ""]
StepThrow(msg) == [t |-> "throw", media |-> <<>>, video_url |-> FALSE, msg |-> msg]
StepNext == [t |-> "next", media |-> <<>>, video_url |-> FALSE, msg |-> ""]

\* ---- part_000

getVideoViaDirect(resp) ==
    CASE resp.status = "reject" -> StepThrow(NetworkError)
      [] resp.status = "notok" -> StepThrow("Direct fetch failed")
      [] resp.body.cls = "blocked" -> StepThrow("Rate limited by Instagram")
      [] OTHER -> StepReturn(resp.body.media, FALSE)

getVideoViaGraphQL(resp) ==
    CASE resp.status = "reject" -> StepThrow(NetworkError)
      [] resp.status = "notok" -> StepThrow("GraphQL method failed")
      [] ~IsJson(resp.body) -> StepThrow(JsonError)
      [] resp.body.cls = "json" -> StepReturn(resp.body.media, FALSE)
      [] OTHER -> StepThrow("GraphQL method failed")

ProxyServices000 == 2

getVideoViaProxy(k, resp) ==
    IF resp.status = "ok" /\ resp.body.cls = "json"
    THEN StepReturn(resp.body.media, FALSE)
    ELSE IF k < ProxyServices000 THEN StepNext
         ELSE StepThrow("All proxy services failed")

getVideoViaOembed(resp) ==
    CASE resp.status = "reject" -> StepThrow(NetworkError)
      [] resp.status = "notok" -> StepThrow("oEmbed API failed")
      [] ~IsJson(resp.body) -> StepThrow(JsonError)
      [] OTHER -> StepReturn(resp.body.media, FALSE)

\* ---- worker.js

getDataViaDirect(resp) ==
    CASE resp.status = "reject" -> StepThrow(NetworkError)
      [] resp.status = "notok" -> StepThrow("Direct fetch failed")
      [] resp.body.cls = "blocked" -> StepThrow("Rate limited by Instagram")
      [] resp.body.cls = "notfound" -> StepThrow("Instagram post not found or private")
      [] OTHER -> StepReturn(<<>>, resp.body.video_url)

ProxyServices == 3

\* the first service is read as JSON (parseKey 'contents'), the others as
\* text: for them the text of a JSON envelope holding a page is itself
\* longer than 1000 characters and names instagram
getDataViaProxy(k, resp) ==
    IF /\ resp.status = "ok"
       /\ \/ resp.body.cls = "json"
          \/ k > 1 /\ resp.body.cls \in {"page", "json"}
    THEN StepReturn(<<>>, resp.body.video_url)
    ELSE IF k < ProxyServices THEN StepNext
         ELSE StepThrow("All proxy services failed")

Endpoints == 4

\* a body that is not JSON makes response.json() throw after it has read
\* the body; the handler's response.text() then throws 'Body has already
\* been used', which the loop's catch turns into the next endpoint
getDataViaAlternative(k, resp) ==
    IF resp.status = "ok" /\ resp.body.cls = "json"
    THEN StepReturn(<<>>, resp.body.video_url)
    ELSE IF k < Endpoints THEN StepNext
         ELSE StepThrow("All alternative endpoints failed")

getDataViaEmbed(resp) ==
    CASE resp.status = "reject" -> StepThrow(NetworkError)
      [] resp.status = "notok" -> StepThrow("Embed fetch failed")
      [] OTHER -> StepReturn(<<>>, resp.body.video_url)

\* ---- part_001

getDataViaGraphQL_001(resp) ==
    CASE resp.status = "reject" -> StepThrow(NetworkError)
      [] resp.status = "notok" -> StepThrow("Failed to fetch page")
      [] OTHER -> StepReturn(resp.body.media, FALSE)

getDataViaProxy_001(resp) ==
    CASE resp.status = "reject" -> StepThrow(NetworkError)
      [] resp.status = "notok" -> StepThrow("Proxy request failed")
      [] ~IsJson(resp.body) -> StepThrow(JsonError)
      [] resp.body.cls = "jsonother" -> StepThrow("No content received from proxy")
      [] OTHER -> StepReturn(resp.body.media, FALSE)

getDataViaDirect_001(resp) ==
    CASE resp.status = "reject" -> StepThrow(NetworkError)
      [] resp.status = "notok" -> StepThrow("Direct fetch failed")
      [] resp.body.cls = "blocked" -> StepThrow("Rate limited by Instagram")
      [] OTHER -> StepReturn(resp.body.media, FALSE)

getDataViaOembed_001(resp) ==
    CASE resp.status = "reject" -> StepThrow(NetworkError)
      [] resp.status = "notok" -> StepThrow("oEmbed API failed")
      [] ~IsJson(resp.body) -> StepThrow(JsonError)
      [] OTHER -> StepReturn(resp.body.media, FALSE)

\* the strategy called name of variant v, on the response to its k-th request
StrategyStep(v, name, k, resp) ==
    CASE v = "part_000" /\ name = "Direct" -> getVideoViaDirect(resp)
      [] v = "part_000" /\ name = "GraphQL" -> getVideoViaGraphQL(resp)
      [] v = "part_000" /\ name = "Proxy" -> getVideoViaProxy(k, resp)
      [] v = "part_000" /\ name = "Oembed" -> getVideoViaOembed(resp)
      [] v = "worker" /\ name = "Direct" -> getDataViaDirect(resp)
      [] v = "worker" /\ name = "Proxy" -> getDataViaProxy(k, resp)
      [] v = "worker" /\ name = "Alternative" -> getDataViaAlternative(k, resp)
      [] v = "worker" /\ name = "Embed" -> getDataViaEmbed(resp)
      [] v = "part_001" /\ name = "GraphQL" -> getDataViaGraphQL_001(resp)
      [] v = "part_001" /\ name = "Proxy" -> getDataViaProxy_001(resp)
      [] v = "part_001" /\ name = "Direct" -> getDataViaDirect_001(resp)
      [] OTHER -> getDataViaOembed_001(resp)

\* strategies that first need extractShortcode(url) and throw without it
NeedsShortcode(v, name) ==
    \/ v = "part_000" /\ name = "GraphQL"
    \/ v = "worker" /\ name \in {"Alternative", "Embed"}
    \/ v = "part_001" /\ name = "GraphQL"

ShortcodeError(v) ==
    IF v = "part_001" THEN "Could not extract shortcode from URL"
    ELSE "Could not extract shortcode"

\* ------------------------------------------------------------------------
\* The chain: downloadInstagramVideo (part_000, worker.js) and
\* downloadInstagramMedia (part_001)

\* the validity test without its early return
RejectsInvalid_Never(ok) == FALSE

\* if (!isValidInstagramUrl(cleanUrl)) return / throw
RejectsInvalid(ok) == ~ok

InvalidUrlOutcome(v) ==
    IF v = "part_001"
    THEN [NoRet EXCEPT !.kind = "raised",
                       !.error = "Download failed: Invalid Instagram URL"]
    ELSE [NoRet EXCEPT !.kind = "value", !.error = "Invalid Instagram URL"]

\* a strategy that fires its next fetch along with the current one instead
\* of awaiting each in turn
fetchIssued_TwoAtOnce(n, k) == {[s |-> n, k |-> j] : j \in k..(k + 1)}

\* the requests a strategy has outstanding after issuing its k-th fetch:
\* every fetch is awaited before the next statement runs
fetchIssued(n, k) == {[s |-> n, k |-> k]}

\* every in place of some
HasHDVideo_Every(result) ==
    \A x \in 1..Len(result.media) : result.media[x].quality \in {"hd", "high"}

\* result.videos.some(v => v.quality === 'hd' || v.quality === 'high')
HasHDVideo(result) ==
    \E x \in 1..Len(result.media) : result.media[x].quality \in {"hd", "high"}

\* the test without its type check: any entry with a URL counts as a video
hasVideo_AnyEntry(result) == Len(result.media) > 0

\* result.media.some(m => m.type === 'video' && m.url && !m.url.includes('.jpg'))
hasVideo(result) ==
    \E x \in 1..Len(result.media) :
        result.media[x].type = "video" /\ ~result.media[x].jpg

\* lastError = lastError || error: the first error is kept
CatchError_KeepFirst(prev, err) == IF prev = NoError THEN err ELSE prev

\* catch (error) { lastError = error; }
CatchError(prev, err) == err

\* a catch block that rethrows network errors
EscapesChain_Rethrow(v, msg) == msg = NetworkError

\* the inner try/catch of the loop catches whatever the strategy throws
EscapesChain(v, msg) == FALSE

\* bestResult = result without the !bestResult test
KeepBest_Latest(best, result) == result

\* else if (!bestResult) bestResult = result
KeepBest(best, result) == IF best = NullResult THEN result ELSE best

\* worker.js calls validateAndProxyVideoUrl, which no file defines: the call
\* throws a ReferenceError inside the loop's try block
validateAndProxyVideoUrlDefined == FALSE
ReferenceError == "validateAndProxyVideoUrl is not defined"

Success(result, method) ==
    [NoRet EXCEPT !.kind = "value", !.success = TRUE, !.data = result,
                  !.method_used = method]

\* lastError?.message || fallback
Details(err, fallback) == IF err = NoError THEN fallback ELSE err.msg

\* the statements after the loop with part_001 reporting a failure when
\* no strategy left a result, as the other two variants do
SelectResult_FailWithoutBest(v, best, err) ==
    IF v = "part_000"
    THEN IF best # NullResult /\ Len(best.media) > 0
         THEN Success(best, "")
         ELSE [NoRet EXCEPT !.kind = "value", !.error = "No video content found",
                            !.details = Details(err, "All extraction methods failed")]
    ELSE IF best # NullResult
         THEN Success(best, IF v = "worker" THEN "fallback" ELSE "")
         ELSE [NoRet EXCEPT !.kind = "value", !.error = "No video content found",
                            !.details = Details(err, "All extraction methods failed")]

\* the statements after the loop
SelectResult(v, best, err) ==
    CASE v = "part_000" ->
           IF best # NullResult /\ Len(best.media) > 0
           THEN Success(best, "")
           ELSE [NoRet EXCEPT !.kind = "value", !.error = "No video content found",
                              !.details = Details(err, "All extraction methods failed")]
      [] v = "worker" ->
           IF best # NullResult
           THEN Success(best, "fallback")
           ELSE [NoRet EXCEPT !.kind = "value", !.error = "No video content found",
                              !.details = Details(err, "All extraction methods failed")]
      [] OTHER ->
           IF best # NullResult
           THEN Success(best, "")
           ELSE [NoRet EXCEPT !.kind = "value", !.success = TRUE,
                              !.details = Details(err, "Could not extract HD video URLs")]

\* the outer catch: part_000 and worker.js return a failure object,
\* part_001 rethrows
OuterCatch(v, msg) ==
    IF v = "part_001"
    THEN [NoRet EXCEPT !.kind = "raised", !.error = "Download failed", !.details = msg]
    ELSE [NoRet EXCEPT !.kind = "value", !.error = "Download failed", !.details = msg]

Decision(go, best, err, out) == [go |-> go, best |-> best, err |-> err, ret |-> out]

\* one pass of the loop body over the outcome o of strategy n:
\* go is "return", "break", "continue", "delay" or "escape"
LoopBody(v, n, o, best, err) ==
    IF o.t = "throw"
    THEN IF EscapesChain(v, o.msg)
         THEN Decision("escape", best, err, OuterCatch(v, o.msg))
         ELSE Decision(IF v = "worker" THEN "delay" ELSE "continue",
                       best, CatchError(err, [by |-> n, msg |-> o.msg]), NoRet)
    ELSE CASE v = "part_000" ->
                IF Len(o.result.media) > 0
                THEN IF HasHDVideo(o.result)
                     THEN Decision("return", best, err, Success(o.result, ""))
                     ELSE Decision("continue", KeepBest(best, o.result), err, NoRet)
                ELSE Decision("continue", best, err, NoRet)
           [] v = "worker" ->
                IF o.result.video_url
                THEN IF validateAndProxyVideoUrlDefined
                     THEN Decision("return", best, err,
                                   Success(o.result, MethodName(v, n)))
                     ELSE Decision("delay", best,
                                   CatchError(err, [by |-> n, msg |-> ReferenceError]),
                                   NoRet)
                ELSE Decision("continue", KeepBest(best, o.result), err, NoRet)
           [] OTHER ->
                IF Len(o.result.media) > 0
                THEN IF hasVideo(o.result)
                     THEN Decision("break", o.result, err, NoRet)
                     ELSE Decision("continue", KeepBest(best, o.result), err, NoRet)
                ELSE Decision("continue", best, err, NoRet)

\* ---- actions

ChainParts ==
    {[ws |-> FALSE, scheme |-> "https", www |-> TRUE, host |-> "instagram",
      kind |-> "reel", id |-> <<"A", "_">>, rest |-> "slash", query |-> TRUE],
     [ws |-> FALSE, scheme |-> "http", www |-> FALSE, host |-> "instagram",
      kind |-> "stories", id |-> <<"A", ".">>, rest |-> "num", query |-> FALSE],
     [ws |-> FALSE, scheme |-> "https", www |-> FALSE, host |-> "instagram",
      kind |-> "p", id |-> <<"A">>, rest |-> "none", query |-> FALSE],
     [ws |-> TRUE, scheme |-> "https", www |-> TRUE, host |-> "example",
      kind |-> "p", id |-> <<"A", "_">>, rest |-> "slash", query |-> FALSE]}

InitWith(v, parts) ==
    /\ variant = v
    /\ urlParts = parts
    /\ rawUrl = BuildUrl(parts)
    /\ cleanUrl = <<>>
    /\ valid = FALSE
    /\ pc = "start"
    /\ idx = 1
    /\ inflight = {}
    /\ silent = FALSE
    /\ cur = NoOutcome
    /\ lastError = NoError
    /\ bestResult = NullResult
    /\ ret = NoRet
    /\ calls = [n \in Methods |-> 0]
    /\ invoked = {}
    /\ outcomes = [n \in Methods |-> NoOutcome]
    /\ examined = {}
    /\ received = [n \in Methods |-> "none"]

Init ==
    /\ \E v \in Variants, parts \in ChainParts : InitWith(v, parts)
    /\ payload = NoPayload
    /\ parsed = NotParsed

\* const cleanUrl = cleanInstagramUrl(url); if (!isValidInstagramUrl(cleanUrl)) ...
Validate ==
    /\ pc = "start"
    /\ cleanUrl' = cleanInstagramUrl(rawUrl)
    /\ valid' = isValidInstagramUrl(cleanUrl')
    /\ IF RejectsInvalid(valid')
       THEN pc' = "done" /\ ret' = InvalidUrlOutcome(variant)
       ELSE pc' = "call" /\ ret' = ret
    /\ UNCHANGED <<variant, urlParts, rawUrl, idx, inflight, silent, cur,
                   lastError, bestResult, calls, invoked, outcomes, examined>>
    /\ UNCHANGED <<received, payload, parsed>>

\* await method(): the strategy starts; it throws at once without a
\* shortcode, and otherwise issues its first request and suspends
Invoke ==
    /\ pc = "call"
    /\ invoked' = invoked \cup {idx}
    /\ IF /\ NeedsShortcode(variant, MethodName(variant, idx))
          /\ extractShortcode(variant, cleanUrl) = <<>>
       THEN /\ cur' = Thrown(ShortcodeError(variant))
            /\ outcomes' = [outcomes EXCEPT ![idx] = cur']
            /\ pc' = "examine"
            /\ UNCHANGED <<inflight, calls>>
       ELSE /\ inflight' = inflight \cup fetchIssued(idx, 1)
            /\ calls' = [calls EXCEPT ![idx] = @ + Cardinality(fetchIssued(idx, 1))]
            /\ pc' = "await"
            /\ UNCHANGED <<cur, outcomes>>
    /\ UNCHANGED <<variant, urlParts, rawUrl, cleanUrl, valid, idx, silent,
                   lastError, bestResult, ret, examined>>
    /\ UNCHANGED <<received, payload, parsed>>

\* a response arrives and the suspended strategy runs on to its next
\* request, its return or its throw
Respond ==
    /\ pc = "await"
    /\ ~silent
    /\ \E req \in inflight,
          resp \in Responses(variant, MethodName(variant, idx), cleanUrl) :
         LET step == StrategyStep(variant, MethodName(variant, idx), req.k, resp)
         IN  /\ received' = [received EXCEPT ![idx] = ResponseClass(resp)]
             /\ IF step.t = "next"
                THEN /\ inflight' = (inflight \ {req}) \cup fetchIssued(idx, req.k + 1)
                     /\ calls' = [calls EXCEPT
                                    ![idx] = @ + Cardinality(fetchIssued(idx, req.k + 1))]
                     /\ UNCHANGED <<pc, cur, outcomes>>
                ELSE /\ inflight' = inflight \ {req}
                     /\ cur' = IF step.t = "return"
                               THEN Returned(idx, step.media, step.video_url)
                               ELSE Thrown(step.msg)
                     /\ outcomes' = [outcomes EXCEPT ![idx] = cur']
                     /\ pc' = "examine"
                     /\ UNCHANGED calls
    /\ UNCHANGED <<variant, urlParts, rawUrl, cleanUrl, valid, idx, silent,
                   lastError, bestResult, ret, invoked, examined>>
    /\ UNCHANGED <<payload, parsed>>

\* the upstream of the outstanding request never answers: no file sets a
\* timeout or passes an abort signal to fetch
Silent ==
    /\ pc = "await"
    /\ ~silent
    /\ silent' = TRUE
    /\ UNCHANGED <<variant, urlParts, rawUrl, cleanUrl, valid, pc, idx,
                   inflight, cur, lastError, bestResult, ret, calls, invoked,
                   outcomes, examined>>
    /\ UNCHANGED <<received, payload, parsed>>

\* a loop that calls a strategy a second time before it goes on
Advance_RetryOnce(best, err) ==
    IF idx \notin examined
    THEN pc' = "call" /\ idx' = idx /\ ret' = ret
    ELSE IF idx + 1 \in Methods
    THEN pc' = "call" /\ idx' = idx + 1 /\ ret' = ret
    ELSE pc' = "done" /\ idx' = idx /\ ret' = SelectResult(variant, best, err)

\* the loop goes on to the next method, or ends and the result is selected
Advance(best, err) ==
    IF idx + 1 \in Methods
    THEN pc' = "call" /\ idx' = idx + 1 /\ ret' = ret
    ELSE pc' = "done" /\ idx' = idx /\ ret' = SelectResult(variant, best, err)

\* the loop body reads what the strategy returned or threw
Examine ==
    /\ pc = "examine"
    /\ examined' = examined \cup {idx}
    /\ cur' = NoOutcome
    /\ LET d == LoopBody(variant, idx, cur, bestResult, lastError)
       IN  /\ bestResult' = d.best
           /\ lastError' = d.err
           /\ CASE d.go \in {"return", "escape"} ->
                     pc' = "done" /\ idx' = idx /\ ret' = d.ret
                [] d.go = "break" ->
                     pc' = "done" /\ idx' = idx
                                  /\ ret' = SelectResult(variant, d.best, d.err)
                [] d.go = "delay" ->
                     pc' = "delay" /\ idx' = idx /\ ret' = ret
                [] OTHER -> Advance(d.best, d.err)
    /\ UNCHANGED <<variant, urlParts, rawUrl, cleanUrl, valid, inflight, silent,
                   calls, invoked, outcomes>>
    /\ UNCHANGED <<received, payload, parsed>>

\* await new Promise(resolve => setTimeout(resolve, 1000)) in the catch
\* block of worker.js
TimerFires ==
    /\ pc = "delay"
    /\ Advance(bestResult, lastError)
    /\ UNCHANGED <<variant, urlParts, rawUrl, cleanUrl, valid, inflight, silent,
                   cur, lastError, bestResult, calls, invoked, outcomes,
                   examined>>
    /\ UNCHANGED <<received, payload, parsed>>

Next == Validate \/ Invoke \/ Respond \/ Silent \/ Examine \/ TimerFires

Spec == Init /\ [][Next]_vars

\* The chain when every network call returns: no upstream stays silent,
\* and the runtime resumes whatever can run (weak fairness)
NextLive == Validate \/ Invoke \/ Respond \/ Examine \/ TimerFires

SpecLive == Init /\ [][NextLive]_vars /\ WF_vars(NextLive)

\* The normalizer and validator alone, over every generated URL
InitUrl ==
    /\ \E parts \in UrlParts : InitWith("worker", parts)
    /\ payload = NoPayload
    /\ parsed = NotParsed

NextUrl == Validate

SpecUrl == InitUrl /\ [][NextUrl]_vars

\* ------------------------------------------------------------------------
\* The pattern extractors applied to generated payloads.  A payload is
\* assembled from parts, so that what each occurrence was built from is
\* known independently of the extractors.

S_cdnHost == <<"c", "d", "n", ".", "e", "x", "a", "m", "p", "l", "e">>
S_scontentHost == S_scontent \o <<".", "e", "x", "a", "m", "p", "l", "e">>
S_v == <<"v">>
S_thumb == <<"t", "h", "u", "m", "b">>
S_mediaQuery == <<"?", "o", "e", "=", "1", "&", "u", "t", "m", "=", "x">>
S_keptQuery == <<"?", "o", "e", "=", "1">>

\* the text of a URL as JSON embedded in a page carries it: / as \/ and
\* & as \u0026
RECURSIVE EscapeJson(_)
EscapeJson(s) ==
    IF s = <<>> THEN <<>>
    ELSE (CASE Head(s) = "/" -> S_escSlash
            [] Head(s) = "&" -> S_escAmp
            [] OTHER -> <<Head(s)>>) \o EscapeJson(Tail(s))

OccPart(field, host, base, suffix, query, esc) ==
    [field |-> field, host |-> host, base |-> base, suffix |-> suffix,
     query |-> query, esc |-> esc]

\* the URL an occurrence stands for, without its query string
MediaUrlBase(part) ==
    S_https \o (IF part.host = "scontent" THEN S_scontentHost ELSE S_cdnHost)
        \o S_slash \o (IF part.base = "v" THEN S_v ELSE S_thumb)
        \o (CASE part.suffix = "_hd.mp4" -> S_hdMp4
              [] part.suffix = "_480p.mp4" -> S_u480p \o S_mp4
              [] part.suffix = ".mp4" -> S_mp4
              [] part.suffix = "_n.jpg" -> S_nJpg
              [] part.suffix = "_s1080x1080.jpg" -> S_s1080x1080Jpg
              [] OTHER -> S_jpg)

MediaUrl(part) ==
    MediaUrlBase(part) \o (IF part.query THEN S_mediaQuery ELSE <<>>)

\* the raw text of the occurrence in the payload
MediaRaw(part) == IF part.esc THEN EscapeJson(MediaUrl(part)) ELSE MediaUrl(part)

VideoOccParts ==
    {OccPart("video_url", "scontent", "v", sfx, FALSE, FALSE) :
        sfx \in {"_hd.mp4", "_480p.mp4", ".mp4"}}
      \cup {OccPart("video_url", "scontent", "v", ".mp4", q, e) : q, e \in BOOLEAN}
      \cup {OccPart("og:video", h, "v", "_hd.mp4", FALSE, FALSE) :
              h \in {"scontent", "cdn"}}
      \cup {OccPart("og:video", "scontent", "v", ".mp4", q, FALSE) : q \in BOOLEAN}
      \cup {OccPart("text", "scontent", "v", sfx, FALSE, FALSE) :
              sfx \in {".mp4", "_480p.mp4"}}

ImageOccParts ==
    {OccPart("display_url", "scontent", "v", sfx, FALSE, FALSE) :
        sfx \in {"_n.jpg", "_s1080x1080.jpg"}}
      \cup {OccPart("display_url", "scontent", "thumb", ".jpg", FALSE, FALSE),
            OccPart("display_url", "scontent", "v", "_n.jpg", FALSE, TRUE),
            OccPart("og:image", "scontent", "v", "_n.jpg", FALSE, FALSE)}
      \cup {OccPart("og:image", h, "thumb", ".jpg", FALSE, FALSE) :
              h \in {"scontent", "cdn"}}

\* an oEmbed answer: JSON with or without a thumbnail_url
ThumbnailOccParts ==
    {OccPart("thumbnail_url", "scontent", b, sfx, FALSE, FALSE) :
        b \in {"v"}, sfx \in {"_n.jpg", ".jpg"}}
      \cup {OccPart("thumbnail_url", "cdn", "v", "_n.jpg", FALSE, FALSE)}

Payloads ==
    {HtmlPayload(parts) : parts \in SeqsUpTo(VideoOccParts \cup ImageOccParts, MaxOccs)}
      \cup {OembedPayload(parts) : parts \in SeqsUpTo(ThumbnailOccParts, 1)}

Occs(parts) == [x \in 1..Len(parts) |-> Occ(parts[x].field, MediaRaw(parts[x]))]

\* the inputs of the operation in the extractor runs: the reel of the
\* end-to-end scenario and a post
ParseParts ==
    {[ws |-> FALSE, scheme |-> "https", www |-> TRUE, host |-> "instagram",
      kind |-> "reel", id |-> <<"A", "B", "C", "1", "2", "3">>, rest |-> "slash",
      query |-> TRUE],
     [ws |-> FALSE, scheme |-> "https", www |-> TRUE, host |-> "instagram",
      kind |-> "p", id |-> <<"A">>, rest |-> "slash", query |-> FALSE]}

chainVars ==
    <<variant, urlParts, rawUrl, cleanUrl, valid, pc, idx, inflight, silent,
      cur, lastError, bestResult, ret, calls, invoked, outcomes, examined,
      received>>

\* a strategy hands the page it fetched to its HTML parser
ParseHtml ==
    /\ pc = "call"
    /\ ~payload.json
    /\ parsed = NotParsed
    /\ parsed' =
         LET occs == Occs(payload.parts)
         IN  CASE variant = "part_000" ->
                    Parsed("html", parseInstagramHTMLForVideo(occs), <<>>)
               [] variant = "worker" ->
                    Parsed("html", <<>>, parseInstagramHTML(occs))
               [] OTHER ->
                    Parsed("html", parseInstagramHTMLImproved(occs), <<>>)
    /\ UNCHANGED <<chainVars, payload>>

\* the oEmbed strategy hands the JSON it fetched to its parser
ParseOembed ==
    /\ pc = "call"
    /\ payload.json
    /\ variant # "worker"
    /\ parsed = NotParsed
    /\ parsed' =
         LET occs == Occs(payload.parts)
         IN  IF variant = "part_000"
             THEN Parsed("oembed", parseOembedDataForVideo(occs, cleanUrl), <<>>)
             ELSE Parsed("oembed", parseOembedData(occs, cleanUrl), <<>>)
    /\ UNCHANGED <<chainVars, payload>>

InitParse ==
    /\ \E v \in Variants, parts \in ParseParts : InitWith(v, parts)
    /\ payload \in Payloads
    /\ parsed = NotParsed

NextParse == Validate \/ ParseHtml \/ ParseOembed

SpecParse == InitParse /\ [][NextParse]_vars

\* ------------------------------------------------------------------------
\* Properties

\* the media sequence holds at least one hd-quality video
ContainsHdVideo(media) ==
    \E x \in 1..Len(media) : media[x].type = "video" /\ media[x].quality = "hd"

LastMethod == CHOOSE n \in Methods : \A m \in Methods : m <= n

NoRequestAtAll ==
    /\ inflight = {}
    /\ invoked = {}
    /\ \A n \in Methods : calls[n] = 0

\* C1 (part_000): once the chain has read the outcome of a strategy that
\* succeeded with a media sequence holding an hd-quality video, the
\* operation is over, what it returned is that strategy's result, and no
\* later strategy was invoked or issued a request, whatever bestResult
\* held before.
C1_ShortCircuit ==
    variant = "part_000" =>
        \A n \in Methods :
            (/\ n \in examined
             /\ outcomes[n].t = "return"
             /\ ContainsHdVideo(outcomes[n].result.media))
            => /\ pc = "done"
               /\ ret.kind = "value"
               /\ ret.success
               /\ ret.data = outcomes[n].result
               /\ \A j \in Methods : j > n => (j \notin invoked /\ calls[j] = 0)

\* an hd result of the third strategy returned although bestResult was set
C1_Witness ==
    /\ variant = "part_000"
    /\ pc = "done"
    /\ bestResult # NullResult
    /\ outcomes[3].t = "return"
    /\ ContainsHdVideo(outcomes[3].result.media)
    /\ Len(outcomes[3].result.media) > 1
    /\ ret.data = outcomes[3].result
    /\ calls[4] = 0

\* C2: when every strategy of the chain threw, the operation returns a
\* value without media whose diagnostic message is the message thrown by
\* the last strategy of the chain.
C2_Exhaustion ==
    (/\ pc = "done"
     /\ valid
     /\ \A n \in Methods : outcomes[n].t = "throw")
    => /\ ret.kind = "value"
       /\ ret.data.media = <<>>
       /\ ~ret.data.video_url
       /\ ret.details = outcomes[LastMethod].msg

\* all four strategies threw, the last two with different messages
C2_Witness ==
    /\ pc = "done"
    /\ variant \in {"part_000", "part_001"}
    /\ \A n \in Methods : outcomes[n].t = "throw"
    /\ outcomes[1].msg = "Rate limited by Instagram" \/ outcomes[1].msg = NetworkError
    /\ outcomes[3].msg # outcomes[4].msg
    /\ ret.details = JsonError

\* C3: for a valid URL the operation ends with a returned value whatever
\* the strategies threw; it raises only for a URL the validator refuses.
C3_NoEscape ==
    /\ (pc = "done" /\ valid) => ret.kind = "value"
    /\ ret.kind = "raised" => ~valid

\* a run over a valid URL in which the strategies threw a network failure,
\* a non-OK status, a rate-limit body and an unparseable body
C3_Witness ==
    /\ pc = "done"
    /\ valid
    /\ variant = "part_001"
    /\ ret.kind = "value"
    /\ outcomes[1].msg = NetworkError
    /\ outcomes[2].msg = "Proxy request failed"
    /\ outcomes[3].msg = "Rate limited by Instagram"
    /\ outcomes[4].msg = JsonError

\* what stops the chain: an hd or high video in part_000, a video entry
\* whose URL holds no ".jpg" in part_001
Accepted(v, media) ==
    IF v = "part_000"
    THEN \E x \in 1..Len(media) : media[x].quality \in {"hd", "high"}
    ELSE \E x \in 1..Len(media) : media[x].type = "video" /\ ~media[x].jpg

KeptCandidates ==
    {n \in Methods : outcomes[n].t = "return" /\ Len(outcomes[n].result.media) > 0}

\* C5 (part_000, part_001): when the chain ends without an accepted
\* result and some strategy returned a non-empty media sequence, the
\* operation returns the result of the earliest such strategy.
C5_EarliestKept ==
    (/\ variant \in {"part_000", "part_001"}
     /\ pc = "done"
     /\ KeptCandidates # {}
     /\ \A n \in KeptCandidates : ~Accepted(variant, outcomes[n].result.media))
    => /\ ret.kind = "value"
       /\ ret.success
       /\ ret.data = outcomes[CHOOSE n \in KeptCandidates :
                                 \A m \in KeptCandidates : n <= m].result

\* two strategies returned different non-accepted media; the first is kept
C5_Witness ==
    /\ pc = "done"
    /\ variant = "part_001"
    /\ {2, 4} \subseteq KeptCandidates
    /\ 1 \notin KeptCandidates
    /\ outcomes[2].result.media # outcomes[4].result.media
    /\ \A n \in KeptCandidates : ~Accepted(variant, outcomes[n].result.media)
    /\ ret.data = outcomes[2].result

\* C6: once the validator has refused the URL the operation is over with
\* the invalid-URL error, no strategy was invoked and no request issued.
C6_InvalidRejectedFirst ==
    (pc # "start" /\ ~valid)
    => /\ pc = "done"
       /\ NoRequestAtAll
       /\ ~ret.success
       /\ ret = InvalidUrlOutcome(variant)

C6_Witness ==
    /\ pc = "done"
    /\ ~valid
    /\ urlParts.host = "example"
    /\ ret.kind = "raised"
    /\ NoRequestAtAll

\* C9: at most one request is outstanding at any moment, it belongs to the
\* strategy being awaited, and a strategy has issued a request only after
\* the chain read the outcome of every strategy before it.
C9_Sequential ==
    /\ Cardinality(inflight) <= 1
    /\ \A r \in inflight : pc = "await" /\ r.s = idx
    /\ \A n \in Methods :
          calls[n] > 0 => \A j \in Methods : j < n => j \in examined

\* the second request of a multi-call strategy is outstanding, alone
C9_Witness ==
    /\ variant = "worker"
    /\ inflight = {[s |-> 3, k |-> 2]}
    /\ calls[3] = 2
    /\ examined = {1, 2}

ContainsVideo(media) == \E x \in 1..Len(media) : media[x].type = "video"

\* strategy n, not the last, was read by the chain after it returned a
\* non-empty media sequence
ReadNonEmpty(n) ==
    /\ variant \in {"part_000", "part_001"}
    /\ n \in examined
    /\ n < LastMethod
    /\ outcomes[n].t = "return"
    /\ Len(outcomes[n].result.media) > 0

NextAttempted(n) == (n + 1) \in invoked \/ (pc = "call" /\ idx = n + 1)

\* C4 as stated (part_000, part_001): after a strategy returned a non-empty
\* media sequence without an hd-quality video, the next strategy is
\* attempted.
C4_ContinuesWithoutHd ==
    \A n \in Methods :
        (ReadNonEmpty(n) /\ ~ContainsHdVideo(outcomes[n].result.media))
        => NextAttempted(n)

\* C4 as the code has it: after a strategy other than the last returned a
\* non-empty media sequence, the next strategy is attempted exactly when
\* the sequence holds no hd-quality video (part_000), no video entry of any
\* quality (part_001); otherwise the chain stops there.
C4_ContinuesUnlessStopping ==
    \A n \in Methods :
        ReadNonEmpty(n)
        => LET media == outcomes[n].result.media
               stops == IF variant = "part_000" THEN ContainsHdVideo(media)
                        ELSE ContainsVideo(media)
           IN  IF stops
               THEN pc = "done" /\ (n + 1) \notin invoked
               ELSE NextAttempted(n)

\* part_001: the first strategy returned images only and the second ran
C4_Witness ==
    /\ variant = "part_001"
    /\ ReadNonEmpty(1)
    /\ ~ContainsVideo(outcomes[1].result.media)
    /\ Len(outcomes[1].result.media) > 1
    /\ 2 \in invoked
    /\ calls[2] > 0

\* the input was assembled as a recognized post, reel, igtv or story URL:
\* http or https, optional www., instagram.com, /p/<id>, /reel/<id>,
\* /tv/<id> (with or without the trailing slash) or /stories/<user>/<digits>
\* (likewise), identifier of allowed characters, with or without a query
\* string (and with or without surrounding white space)
Recognized(parts) ==
    /\ parts.scheme \in {"http", "https"}
    /\ parts.host = "instagram"
    /\ \/ /\ parts.kind \in {"p", "reel", "tv"}
          /\ \A x \in 1..Len(parts.id) : parts.id[x] \in IdClass
          /\ parts.rest \in {"none", "slash"}
       \/ /\ parts.kind = "stories"
          /\ \A x \in 1..Len(parts.id) : parts.id[x] \in UserClass
          /\ parts.rest \in {"num", "numslash"}

\* C7: for every input of a recognized shape the validator accepts the
\* normalized URL, and normalizing the normalized URL changes nothing.
C7_AcceptsAndIdempotent ==
    (pc # "start" /\ Recognized(urlParts))
    => /\ valid
       /\ cleanInstagramUrl(cleanUrl) = cleanUrl

\* a story URL with a query string and no trailing slash was validated
C7_Witness ==
    /\ pc # "start"
    /\ Recognized(urlParts)
    /\ urlParts.kind = "stories"
    /\ urlParts.query
    /\ urlParts.rest = "num"
    /\ cleanUrl # rawUrl
    /\ valid

\* C8: every input that is not of a recognized shape (its normalized form
\* is not exactly scheme, host, path form, identifier, optional slash) is
\* refused by the validator.
C8_OthersRejected ==
    (pc # "start" /\ ~Recognized(urlParts)) => ~valid

\* C10: an outstanding request whose upstream never answers does not stop
\* the operation: a deadline ends the attempt, so a step is still possible.
C10_DeadlineEndsAttempt ==
    (pc = "await" /\ silent) => ENABLED Next

\* ------------------------------------------------------------------------
\* Properties of the pattern extractors (specification SpecParse)

\* the URL the extractor of variant v is to report for an occurrence:
\* unescaped, and in part_001 with the query string cut down to oe=1
Expected(v, part) ==
    IF v = "part_001"
    THEN MediaUrlBase(part) \o (IF part.query THEN S_keptQuery ELSE <<>>)
    ELSE MediaUrl(part)

IsVideoPart(part) == part.suffix \in {"_hd.mp4", "_480p.mp4", ".mp4"}

\* C11: in the media of every result a parser produced, no two entries
\* carry the same URL.
C11_DistinctUrls ==
    parsed.by # "none"
    => \A a, b \in 1..Len(parsed.media) :
           a # b => parsed.media[a].url # parsed.media[b].url

\* every occurrence of the payload stands for one and the same video URL of
\* the CDN, and at least one is escaped and one is not
SameVideoEscapedAndPlain(parts) ==
    /\ Len(parts) >= 2
    /\ \A x \in 1..Len(parts) :
          /\ parts[x].field \in {"video_url", "og:video"}
          /\ IsVideoPart(parts[x])
          /\ parts[x].host = "scontent"
          /\ MediaUrl(parts[x]) = MediaUrl(parts[1])
    /\ \E x, y \in 1..Len(parts) : parts[x].esc /\ ~parts[y].esc

\* C12 (part_000, part_001): a page whose occurrences are one video URL,
\* once with escaped slashes and unicode-escaped ampersands and once
\* without, yields exactly one media entry, carrying the unescaped URL.
C12_EscapedOnce ==
    (/\ variant \in {"part_000", "part_001"}
     /\ parsed.by = "html"
     /\ SameVideoEscapedAndPlain(payload.parts))
    => /\ Len(parsed.media) = 1
       /\ parsed.media[1].url = Expected(variant, payload.parts[1])

\* the escaped occurrence comes first and carries a query string
C12_Witness ==
    /\ variant = "part_001"
    /\ parsed.by = "html"
    /\ SameVideoEscapedAndPlain(payload.parts)
    /\ payload.parts[1].esc
    /\ payload.parts[1].query
    /\ Len(parsed.media) = 1
    /\ parsed.media[1].type = "video"

\* C13: in the media of every result, no image entry comes before a video
\* entry.
C13_VideosFirst ==
    parsed.by # "none"
    => \A a, b \in 1..Len(parsed.media) :
           (a < b /\ parsed.media[b].type = "video")
           => parsed.media[a].type = "video"

\* the page names the image before the video; the media hold both
C13_Witness ==
    /\ variant = "part_001"
    /\ parsed.by = "html"
    /\ Len(payload.parts) = 2
    /\ ~IsVideoPart(payload.parts[1])
    /\ IsVideoPart(payload.parts[2])
    /\ Len(parsed.media) = 2
    /\ parsed.media[1].type = "video"
    /\ parsed.media[2].type = "image"

C15_ThumbnailDropped ==
    (/\ variant = "part_001"
     /\ parsed.by = "html"
     /\ \E x \in 1..Len(parsed.media) : parsed.media[x].type = "video")
    => \A y \in 1..Len(payload.parts) :
           (/\ payload.parts[y].suffix = "_n.jpg"
            /\ \E z \in 1..Len(payload.parts) :
                  /\ IsVideoPart(payload.parts[z])
                  /\ payload.parts[z].host = payload.parts[y].host
                  /\ payload.parts[z].base = payload.parts[y].base)
           => \A x \in 1..Len(parsed.media) :
                  parsed.media[x].type = "image"
                  => /\ parsed.media[x].url # MediaUrl(payload.parts[y])
                     /\ parsed.media[x].original # MediaUrl(payload.parts[y])

\* the end-to-end scenario: the reel URL with ?utm=x, and a page with an
\* og:video tag for v_hd.mp4 and an og:image tag for thumb.jpg on host h
Scenario(h) ==
    /\ urlParts.kind = "reel"
    /\ urlParts.query
    /\ parsed.by = "html"
    /\ payload.parts = <<OccPart("og:video", h, "v", "_hd.mp4", FALSE, FALSE),
                         OccPart("og:image", h, "thumb", ".jpg", FALSE, FALSE)>>

ScenarioMedia(h) ==
    <<Entry("video", MediaUrl(OccPart("og:video", h, "v", "_hd.mp4", FALSE, FALSE)),
            "hd", <<>>),
      Entry("image", MediaUrl(OccPart("og:image", h, "thumb", ".jpg", FALSE, FALSE)),
            "standard", <<>>)>>

NormalizedReel ==
    S_http \o S_s \o S_colonSlashes \o S_www \o S_host \o S_reel
        \o <<"A", "B", "C", "1", "2", "3">> \o S_slash

\* C16 as stated: with the media on https://cdn.example/ the scenario
\* yields the hd video followed by the standard image.
C16_EndToEndAsStated ==
    (variant # "worker" /\ Scenario("cdn"))
    => /\ cleanUrl = NormalizedReel
       /\ parsed.media = ScenarioMedia("cdn")

\* C16 as the code has it (part_001): the input is normalized to
\* https://www.instagram.com/reel/ABC123/ and, with the media on a CDN host
\* (https://scontent.example/), the page yields the hd video followed by
\* the standard image; with the media on https://cdn.example/ it yields no
\* media at all.
C16_EndToEnd ==
    /\ (variant = "part_001" /\ Scenario("scontent"))
       => /\ rawUrl = NormalizedReel \o S_query
          /\ cleanUrl = NormalizedReel
          /\ parsed.media = ScenarioMedia("scontent")
    /\ (variant = "part_001" /\ Scenario("cdn"))
       => /\ cleanUrl = NormalizedReel
          /\ parsed.media = <<>>

C16_Witness ==
    /\ variant = "part_001"
    /\ Scenario("scontent")
    /\ cleanUrl = NormalizedReel
    /\ Len(parsed.media) = 2

\* occurrences read by a structured-JSON rule, and by the lower-priority
\* rules (meta tag, bare URL in the text) only
IsStructured(part) == part.field = "video_url"
IsLower(part) == part.field \in {"og:video", "text"}

\* the result holds the URL of the occurrence
Reports(part) ==
    IF variant = "worker" THEN parsed.video_url = Expected(variant, part)
    ELSE HasUrl(parsed.media, Expected(variant, part))

\* the URL of occurrence y is matched by lower-priority rules only
OnlyLower(parts, y) ==
    /\ IsLower(parts[y])
    /\ \A x \in 1..Len(parts) :
          IsStructured(parts[x]) => MediaUrl(parts[x]) # MediaUrl(parts[y])

LowerAccepted(v, part) ==
    /\ IsVideoPart(part)
    /\ v = "part_001" => part.host = "scontent"
    /\ v = "part_000" => part.field = "og:video"

FirstStructured(parts, x) ==
    /\ IsStructured(parts[x])
    /\ \A y \in 1..(x - 1) : ~IsStructured(parts[y])

C17_WorkerSuccess ==
    variant = "worker" =>
        \A n \in Methods :
            (/\ n \in examined
             /\ outcomes[n].t = "return"
             /\ outcomes[n].result.video_url)
            => /\ pc = "done"
               /\ ret.kind = "value"
               /\ ret.success
               /\ ret.data = outcomes[n].result
               /\ ret.method_used = MethodName(variant, n)
               /\ \A j \in Methods : j > n => (j \notin invoked /\ calls[j] = 0)

\* the position of the alternate-endpoint strategy in the methods of
\* worker.js
Alternative == CHOOSE n \in Methods : MethodName("worker", n) = "Alternative"

\* C18 (worker.js): once an endpoint of the alternate-endpoint strategy has
\* answered OK with a body that is not JSON but an HTML page of more than
\* 1000 characters, the strategy has returned (the result of parsing that
\* page): it neither awaits another endpoint nor has thrown.
C18_HtmlFallback ==
    (variant = "worker" /\ received[Alternative] = "page")
    => outcomes[Alternative].t = "return"

\* the strategies that fetch a page body: direct fetch, the page fetch that
\* part_001 calls GraphQL, proxy relay, embed page
FetchesPage(v, name) ==
    CASE v = "part_000" -> name \in {"Direct", "Proxy"}
      [] v = "worker" -> name \in {"Direct", "Proxy", "Embed"}
      [] OTHER -> name \in {"GraphQL", "Proxy", "Direct"}

\* C20: when the body on which a page-fetching strategy ended holds the
\* blocking phrase, the strategy threw 'Rate limited by Instagram' (no
\* result comes from that body), and once the chain has read it the next
\* strategy is attempted.
C20_BlockedIsRateLimited ==
    \A n \in Methods :
        (/\ FetchesPage(variant, MethodName(variant, n))
         /\ outcomes[n].t # "none"
         /\ received[n] = "blocked")
        => /\ outcomes[n] = Thrown("Rate limited by Instagram")
           /\ (n \in examined /\ n < LastMethod /\ pc # "delay") => NextAttempted(n)

\* ------------------------------------------------------------------------
\* Properties of the candidates the extractors keep

\* the validity rule for a media entry: secure scheme, CDN host space, and
\* an extension that agrees with the entry's kind
ValidEntry(e) ==
    /\ StartsWith(e.url, S_https)
    /\ Includes(e.url, S_scontent)
    /\ e.type = "video"
       => ~(Includes(e.url, S_jpg) \/ Includes(e.url, S_jpeg) \/ Includes(e.url, S_png))
    /\ e.type = "image" => ~Includes(e.url, S_mp4)

\* C21: every media entry of every result a parser produced, the
\* oEmbed-derived one included, has an https URL of the CDN host space whose
\* extension agrees with its kind.
C21_EntriesValid ==
    parsed.by # "none"
    => \A x \in 1..Len(parsed.media) : ValidEntry(parsed.media[x])

\* ------------------------------------------------------------------------
\* The URL cleaner applied to generated candidates.  A candidate is
\* assembled from the parameters of its query string, so that what the
\* input carried is known independently of the cleaner.

Param(name, value, eq) == [name |-> name, value |-> value, eq |-> eq]

\* oe twice with different values, two more whitelisted names (one without
\* "="), and a name outside the whitelist
QueryParams ==
    {Param(<<"o", "e">>, <<"1">>, TRUE), Param(<<"o", "e">>, <<"2">>, TRUE),
     Param(<<"o", "h">>, <<"a", "b">>, TRUE), Param(<<"c", "c", "b">>, <<>>, FALSE),
     Param(<<"u", "t", "m">>, <<"x">>, TRUE)}

\* q: the URL has a "?"; esc: it is written as JSON text carries it
Candidates ==
    {[q |-> q, params |-> ps, esc |-> e] :
        q \in BOOLEAN, ps \in SeqsUpTo(QueryParams, MaxParams), e \in BOOLEAN}

ParamText(p) == p.name \o (IF p.eq THEN S_equals \o p.value ELSE <<>>)

CandidateBase == S_https \o S_scontentHost \o S_slash \o S_v \o S_mp4

CandidateUrl(c) ==
    CandidateBase
        \o (IF c.q
            THEN S_question \o Join([x \in 1..Len(c.params) |-> ParamText(c.params[x])],
                                    S_amp)
            ELSE <<>>)

CandidateRaw(c) == IF c.esc THEN EscapeJson(CandidateUrl(c)) ELSE CandidateUrl(c)

CleanPayloads ==
    {HtmlPayload(<<c>>) : c \in {d \in Candidates : d.q \/ d.params = <<>>}}

\* videoUrl = cleanMediaUrl(videoUrl): parsed.video_url is the cleaned URL
Clean ==
    /\ pc = "call"
    /\ parsed = NotParsed
    /\ parsed' = Parsed("clean", <<>>, cleanMediaUrl(CandidateRaw(payload.parts[1])))
    /\ UNCHANGED <<chainVars, payload>>

InitClean ==
    /\ \E parts \in ParseParts : InitWith("part_001", parts)
    /\ payload \in CleanPayloads
    /\ parsed = NotParsed

NextClean == Validate \/ Clean

SpecClean == InitClean /\ [][NextClean]_vars

\* the parameters of the cleaned URL, read back from its text
CleanedParams ==
    IF Includes(parsed.video_url, S_question)
    THEN SearchParams(Split(parsed.video_url, "?")[2])
    ELSE <<>>

Whitelisted(name) == \E x \in 1..Len(EssentialParams) : EssentialParams[x] = name

\* C22: the query string of a cleaned URL holds only whitelisted
\* parameters, each with a value that name had in the input, and the
\* cleaned URL holds no "?" when the input has no whitelisted parameter.
C22_OnlyWhitelisted ==
    parsed.by = "clean"
    => LET input == payload.parts[1].params
       IN  /\ \A x \in 1..Len(CleanedParams) :
                 /\ Whitelisted(CleanedParams[x].name)
                 /\ \E y \in 1..Len(input) :
                       /\ input[y].name = CleanedParams[x].name
                       /\ input[y].value = CleanedParams[x].value
           /\ (\A y \in 1..Len(input) : ~Whitelisted(input[y].name))
              => ~Includes(parsed.video_url, S_question)

\* an escaped candidate with ?utm=x, oe=1 and oe=2 was cleaned to ...?oe=1
C22_Witness ==
    /\ parsed.by = "clean"
    /\ payload.parts[1].esc
    /\ Len(payload.parts[1].params) = 3
    /\ payload.parts[1].params[1].name = <<"u", "t", "m">>
    /\ payload.parts[1].params[2].value = <<"1">>
    /\ payload.parts[1].params[3].value = <<"2">>
    /\ parsed.video_url = CandidateBase \o S_keptQuery

\* ------------------------------------------------------------------------
\* Quality tags

\* the URL carries an hd marker: 720p, 1080p, 1080x1080 or _hd
HasHdMarker(url) ==
    \/ Includes(url, S_720p)
    \/ Includes(url, S_1080p)
    \/ Includes(url, S_1080x1080)
    \/ Includes(url, S_hd)

\* the URL carries some resolution or quality marker
HasMarker(url) ==
    \/ HasHdMarker(url)
    \/ Includes(url, S_u480p)
    \/ Includes(url, S_720x720)
    \/ Includes(url, S_high)

\* C23: a media entry whose URL carries no marker is tagged hd when it is a
\* video and standard when it is an image, and an entry whose URL carries
\* an hd marker is tagged hd.
C23_QualityDefault ==
    parsed.by # "none"
    => \A x \in 1..Len(parsed.media) :
           LET e == parsed.media[x]
           IN  /\ ~HasMarker(e.url)
                  => e.quality = (IF e.type = "video" THEN "hd" ELSE "standard")
               /\ HasHdMarker(e.url) => e.quality = "hd"

\* ------------------------------------------------------------------------
\* Properties of the multi-request strategies

\* the position of the proxy relay strategy in the methods of variant v
ProxyIndex(v) == CHOOSE n \in Methods : MethodName(v, n) = "Proxy"

\* a response whose payload is longer than 1000 characters: a page, or the
\* JSON envelope of a page
Sufficient(cls) == cls \in {"page", "json"}

\* C24 (part_000, worker.js): a further relay is contacted only after the
\* relay before it failed, answered non-OK or returned an insufficient
\* payload; once a relay has returned a payload of more than 1000
\* characters the strategy has returned and contacts no further relay; and
\* the strategy throws only 'All proxy services failed'.
C24_ProxyRelays ==
    variant \in {"part_000", "worker"}
    => LET n == ProxyIndex(variant)
       IN  /\ (\E r \in inflight : r.s = n /\ r.k > 1) => ~Sufficient(received[n])
           /\ Sufficient(received[n])
              => /\ outcomes[n].t = "return"
                 /\ \A r \in inflight : r.s # n
           /\ outcomes[n].t = "throw"
              => outcomes[n].msg = "All proxy services failed"

\* ------------------------------------------------------------------------
\* The parsers of structured data (GraphQL shortcode_media, API items[0])
\* applied to generated data

\* a shortcode_media object or one node of its edge_sidecar_to_children:
\* video_url is <<>> when absent
Node(is_video, video_url) ==
    [kind |-> "node", is_video |-> is_video, video_url |-> video_url]

\* one entry of video_versions
Version(width, height, url) ==
    [kind |-> "version", width |-> width, height |-> height, url |-> url]

VideoUrls ==
    {S_https \o S_scontentHost \o S_slash \o <<c>> \o S_mp4 : c \in {"a", "b"}}

Nodes == {Node(iv, u) : iv \in BOOLEAN, u \in {<<>>} \cup VideoUrls}

Versions ==
    {Version(w, h, u) : w \in 1..MaxDim, h \in 1..MaxDim, u \in VideoUrls}

\* parts[1] is the post itself, the others are its children in order
GraphQLPayloads ==
    {OembedPayload(<<top>> \o children) :
        top \in Nodes, children \in SeqsUpTo(Nodes, MaxChildren)}

\* parts is items[0].video_versions (empty when absent)
ApiPayloads == {OembedPayload(vs) : vs \in SeqsUpTo(Versions, MaxVersions)}

\* part_000: the post's own video, then every child video, all tagged 'hd'
parseGraphQLDataForVideo(mediaData, children) ==
    LET entry(node) == Entry("video", node.video_url, "hd", <<>>)
        isVideo(node) == node.is_video /\ node.video_url # <<>>
        own == IF isVideo(mediaData) THEN <<entry(mediaData)>> ELSE <<>>
        kept == SelectSeq(children, isVideo)
    IN  own \o [x \in 1..Len(kept) |-> entry(kept[x])]

\* worker.js: result.video_url, <<>> for null
parseGraphQLData(media) == media.video_url

\* the reducer that prefers the later of two versions of equal area
BetterVideo_OrEqual(best, current) ==
    IF current.width * current.height >= best.width * best.height
    THEN current ELSE best

\* (best, current) => (current.width * current.height) >
\*                    (best.width * best.height) ? current : best
BetterVideo(best, current) ==
    IF current.width * current.height > best.width * best.height
    THEN current ELSE best

\* Array.prototype.reduce without an initial value
RECURSIVE Reduce(_, _)
Reduce(best, rest) ==
    IF rest = <<>> THEN best
    ELSE Reduce(BetterVideo(best, Head(rest)), Tail(rest))

\* worker.js: video_url and the width and height of video_details; the
\* result keeps both null without video_versions
parseInstagramAPIData(video_versions) ==
    IF Len(video_versions) > 0
    THEN LET bestVideo == Reduce(Head(video_versions), Tail(video_versions))
         IN  Parsed("api",
                    <<[width |-> bestVideo.width, height |-> bestVideo.height]>>,
                    bestVideo.url)
    ELSE Parsed("api", <<>>, <<>>)

\* the GraphQL strategy (part_000) or an alternate endpoint (worker.js)
\* hands shortcode_media to its parser
ParseGraphQL ==
    /\ pc = "call"
    /\ parsed = NotParsed
    /\ payload.parts # <<>>
    /\ payload.parts[1].kind = "node"
    /\ parsed' =
         IF variant = "part_000"
         THEN Parsed("graphql",
                     parseGraphQLDataForVideo(Head(payload.parts), Tail(payload.parts)),
                     <<>>)
         ELSE Parsed("graphql", <<>>, parseGraphQLData(Head(payload.parts)))
    /\ UNCHANGED <<chainVars, payload>>

\* an alternate endpoint of worker.js hands items[0] to its parser
ParseApiData ==
    /\ pc = "call"
    /\ parsed = NotParsed
    /\ variant = "worker"
    /\ payload.parts # <<>> => payload.parts[1].kind = "version"
    /\ parsed' = parseInstagramAPIData(payload.parts)
    /\ UNCHANGED <<chainVars, payload>>

InitData ==
    /\ \E v \in {"part_000", "worker"}, parts \in ParseParts : InitWith(v, parts)
    /\ payload \in GraphQLPayloads \cup (IF variant = "worker" THEN ApiPayloads ELSE {})
    /\ parsed = NotParsed

NextData == Validate \/ ParseGraphQL \/ ParseApiData

SpecData == InitData /\ [][NextData]_vars

\* C25: when the structured data of a post has several children, the
\* result reports the URL of every child that is a video.
C25_CarouselAll ==
    (parsed.by = "graphql" /\ Len(payload.parts) > 2)
    => \A x \in 2..Len(payload.parts) :
           (payload.parts[x].is_video /\ payload.parts[x].video_url # <<>>)
           => \/ HasUrl(parsed.media, payload.parts[x].video_url)
              \/ parsed.video_url = payload.parts[x].video_url

Area(version) == version.width * version.height

\* C27 (worker.js): from a non-empty video_versions list the parser takes
\* the earliest entry of maximal width x height; video_url and the width
\* and height of video_details are those of that entry.
C27_BestVideo ==
    (parsed.by = "api" /\ Len(payload.parts) > 0)
    => \E x \in 1..Len(payload.parts) :
           /\ \A y \in 1..Len(payload.parts) : Area(payload.parts[y]) <= Area(payload.parts[x])
           /\ \A y \in 1..(x - 1) : Area(payload.parts[y]) < Area(payload.parts[x])
           /\ parsed.video_url = payload.parts[x].url
           /\ parsed.media = <<[width |-> payload.parts[x].width,
                                height |-> payload.parts[x].height]>>

\* three versions: a smaller one, then two of the same maximal area with
\* different shapes and URLs; the second entry is taken
C27_Witness ==
    /\ parsed.by = "api"
    /\ Len(payload.parts) = 3
    /\ Area(payload.parts[1]) < Area(payload.parts[2])
    /\ Area(payload.parts[2]) = Area(payload.parts[3])
    /\ payload.parts[2].width # payload.parts[3].width
    /\ payload.parts[2].url # payload.parts[3].url
    /\ parsed.video_url = payload.parts[2].url
    /\ parsed.media[1].width = payload.parts[2].width

\* C26 (worker.js): the chain pauses after a strategy attempt exactly when
\* that attempt failed and another strategy follows it: no pause after an
\* attempt that returned, none after the outcome of the last strategy.
C26_DelayBetween ==
    variant = "worker"
    => /\ pc = "delay" => (outcomes[idx].t = "throw" /\ idx < LastMethod)
       /\ (/\ idx \in examined
           /\ outcomes[idx].t = "throw"
           /\ idx < LastMethod
           /\ pc # "done")
          => pc = "delay"

\* ------------------------------------------------------------------------
\* What a successful result carries

ReturnedWithoutVideo ==
    {n \in Methods : outcomes[n].t = "return" /\ ~outcomes[n].result.video_url}

TagOf(kind) ==
    CASE kind = "p" -> "post"
      [] kind = "reel" -> "reel"
      [] kind = "tv" -> "igtv"
      [] OTHER -> "story"

\* C29: for every URL the validator accepts, the tag computed by
\* detectMediaType is the one of the pattern that accepted it.
C29_TagMatchesShape ==
    (pc # "start" /\ valid)
    => \A kind \in PatternKinds :
           PatternEnds(cleanUrl, kind) # {}
           => detectMediaType(cleanUrl) = TagOf(kind)

\* ------------------------------------------------------------------------
\* Termination and the number of requests

TotalCalls == calls[1] + calls[2] + calls[3] + calls[4]

=============================================================================
